---- MODULE Spec2Model ----
(***************************************************************************)
(* Model of metadecoder/sam_utility.py: the block partitioner              *)
(* generate_block, the record decoders read_sam_file and read_bam_file,    *)
(* and the binary header reader read_bam_header.  Files are sequences of   *)
(* bytes; every read, seek, readline, split, int() and struct.unpack is    *)
(* computed on those bytes.                                                *)
(***************************************************************************)
EXTENDS Integers, Sequences, FiniteSets, TLC

\* ------------------------------------------------------------------ bounds
MaxRecs == 3
MaxBlocks == 3
MaxRefs == 2
MaxCut == 4

\* ------------------------------------------------------- program constants
LF == 10
TAB == 9
AT == 64
UnmappedMask == 4
PrefixLen == 16
LenBytes == 4

\* ------------------------------------------------------------ byte helpers
Min2(a, b) == IF a <= b THEN a ELSE b

Max2(a, b) == IF a >= b THEN a ELSE b

MinOf(S) == CHOOSE x \in S : \A y \in S : x <= y

\* math.ceil(a / b) for b > 0 (\div is floor division)
Ceil(a, b) == -((-a) \div b)

\* s[a:b] of Python, for every integer a and b
PySlice(s, a, b) ==
    LET n == Len(s)
        lo == IF a < 0 THEN Max2(a + n, 0) ELSE Min2(a, n)
        hi == IF b < 0 THEN Max2(b + n, 0) ELSE Min2(b, n)
    IN SubSeq(s, lo + 1, hi)

RECURSIVE Flatten(_)
Flatten(ss) == IF ss = <<>> THEN <<>> ELSE Head(ss) \o Flatten(Tail(ss))

RECURSIVE SumLen(_)
SumLen(ss) == IF ss = <<>> THEN 0 ELSE Len(Head(ss)) + SumLen(Tail(ss))

\* struct.pack("<i", n): two's complement, least significant byte first
\* (\div rounds down and % is never negative)
Pack32(n) ==
    << n % 256, (n \div 256) % 256, (n \div 65536) % 256, (n \div 16777216) % 256 >>

\* struct.unpack("<i", b)[0] of exactly four bytes
Unpack32(b) ==
    b[1] + 256 * b[2] + 65536 * b[3]
        + 16777216 * (IF b[4] >= 128 THEN b[4] - 256 ELSE b[4])

\* str(n).encode() for n >= 0
RECURSIVE Dec(_)
Dec(n) == IF n < 10 THEN << 48 + n >> ELSE Dec(n \div 10) \o << 48 + (n % 10) >>

IsDigit(c) == c >= 48 /\ c <= 57

RECURSIVE DigitsVal(_, _)
DigitsVal(s, acc) ==
    IF s = <<>> THEN acc ELSE DigitsVal(Tail(s), 10 * acc + (Head(s) - 48))

\* int(b): an optional sign and decimal digits, ValueError otherwise
ParseInt(s) ==
    LET neg == s # <<>> /\ s[1] = 45
        signed == s # <<>> /\ (s[1] = 45 \/ s[1] = 43)
        d == IF signed THEN Tail(s) ELSE s
    IN IF d = <<>> \/ \E i \in 1..Len(d) : ~IsDigit(d[i])
       THEN [ok |-> FALSE, val |-> 0]
       ELSE [ok |-> TRUE, val |-> IF neg THEN -DigitsVal(d, 0) ELSE DigitsVal(d, 0)]

\* line.rstrip(b'\n')
RECURSIVE RStripLF(_)
RStripLF(s) ==
    IF s # <<>> /\ s[Len(s)] = LF THEN RStripLF(SubSeq(s, 1, Len(s) - 1)) ELSE s

\* s.split(b'\t')
RECURSIVE SplitTab(_, _)
SplitTab(s, cur) ==
    IF s = <<>> THEN << cur >>
    ELSE IF Head(s) = TAB THEN << cur >> \o SplitTab(Tail(s), <<>>)
    ELSE SplitTab(Tail(s), Append(cur, Head(s)))

\* b.decode("ascii") succeeds (so does b.decode("utf-8") of such bytes; the
\* inputs hold no byte above 127)
IsAscii(s) == \A i \in 1..Len(s) : s[i] < 128

\* ------------------------------------------------------------ file handle
\* f.read(n) at position p: the bytes returned
ReadBytes(f, p, n) ==
    IF p >= Len(f) THEN <<>>
    ELSE IF n = -1 THEN SubSeq(f, p + 1, Len(f))
    ELSE SubSeq(f, p + 1, Min2(p + n, Len(f)))

\* f.tell() after f.readline() at position p
ReadLineEnd(f, p) ==
    IF p >= Len(f) THEN p
    ELSE LET nl == {i \in (p + 1)..Len(f) : f[i] = LF}
         IN IF nl = {} THEN Len(f) ELSE MinOf(nl)

\* ------------------------------------------------------------- text files
\* One alignment line: its six mandatory tab-separated fields.
SamRec(qname, flag, rname, pos, mq, cigar) ==
    [qname |-> qname, flag |-> flag, rname |-> rname, pos |-> pos, mq |-> mq, cigar |-> cigar]

\* "a 0 c 7 30 M", "bbb 20 c 12 30 M" (unmapped), "dd 16 c 5 0 *" (low quality)
SamKinds ==
    { SamRec(<<97>>, 0, <<99>>, 7, 30, <<77>>),
      SamRec(<<98, 98, 98>>, 20, <<99>>, 12, 30, <<77>>),
      SamRec(<<100, 100>>, 16, <<99>>, 5, 0, <<42>>) }

SamLine(r) ==
    r.qname \o <<TAB>> \o Dec(r.flag) \o <<TAB>> \o r.rname \o <<TAB>> \o Dec(r.pos)
        \o <<TAB>> \o Dec(r.mq) \o <<TAB>> \o r.cigar \o <<LF>>

\* "@HD\tVN:1\n" and "@SQ\tSN:c\tLN:9\n"
HDLine == <<AT, 72, 68, TAB, 86, 78, 58, 49, LF>>

SQLine == <<AT, 83, 81, TAB, 83, 78, 58, 99, TAB, 76, 78, 58, 57, LF>>

SamPrologues == { <<>>, <<HDLine>>, <<HDLine, SQLine>> }

\* ----------------------------------------------------------- binary files
Magic == <<66, 65, 77, 1>>

BamRef(name, l_ref) == [name |-> name, l_ref |-> l_ref]

\* the reference "c\0" of length 1000
RefC == BamRef(<<99, 0>>, 1000)

BamHeaderTexts == { <<>>, <<AT, 67, 79>> }

BamHeader(text, refs) ==
    Magic \o Pack32(Len(text)) \o text \o Pack32(Len(refs))
        \o Flatten([i \in 1..Len(refs) |->
                      Pack32(Len(refs[i].name)) \o refs[i].name \o Pack32(refs[i].l_ref)])

\* One alignment record.  layout "aligned": the 16-byte prefix
\* ref_id:int32 pos:int32 uint8 mapq:uint8 uint8 pad l_read_name:int32, then the
\* read name with its terminator and the CIGAR bytes.  layout "packed": the same
\* fields without the pad byte (15 bytes), the size of "<iiBBBi".
BamRec(layout, ref_id, pos, mq, name, cigar) ==
    [layout |-> layout, ref_id |-> ref_id, pos |-> pos, mq |-> mq, name |-> name, cigar |-> cigar]

BamBody(r) ==
    Pack32(r.ref_id) \o Pack32(r.pos) \o <<0, r.mq, 0>>
        \o (IF r.layout = "aligned" THEN <<0>> ELSE <<>>)
        \o Pack32(Len(r.name) + 1)
        \o (IF r.layout = "aligned" THEN r.name \o <<0>> \o r.cigar ELSE <<>>)

BamRecord(r) == Pack32(Len(BamBody(r))) \o BamBody(r)

BamKinds ==
    { BamRec("aligned", 0, 100, 10, <<114>>, <<77>>),
      BamRec("aligned", 0, 200, 50, <<114, 114>>, <<77>>),
      BamRec("packed", 0, 100, 10, <<>>, <<>>),
      BamRec("packed", 0, 200, 50, <<>>, <<>>) }

\* ------------------------------------------------------------------ inputs
SeqsUpTo(S, n) == UNION { [1..k -> S] : k \in 0..n }

MapqChoices == {0, 30}

\* the bytes of the header and of each record of an input
HeaderBytes(in) ==
    IF in.fmt = "bam" THEN BamHeader(in.text, in.refs) ELSE Flatten(in.prologue)

RecordBytes(in) ==
    [i \in 1..Len(in.recs) |->
        IF in.fmt = "bam" THEN BamRecord(in.recs[i]) ELSE SamLine(in.recs[i])]

\* An input as it lies on disk: its bytes (a text file may lack the newline of
\* its last line, a binary file may have lost its last in.cut bytes), the
\* record-start offset R, and offs[k + 1], the offset at which record k ends
\* (offs[1] = R), none past the end of the file.
Laid(in) ==
    LET hb == HeaderBytes(in)
        rb == RecordBytes(in)
        all == hb \o Flatten(rb)
        bytes == IF in.fmt = "bam" THEN SubSeq(all, 1, Len(all) - in.cut)
                 ELSE IF ~in.eol /\ all # <<>> THEN SubSeq(all, 1, Len(all) - 1) ELSE all
    IN in @@ [bytes |-> bytes,
              R |-> Len(hb),
              offs |-> [k \in 1..(Len(rb) + 1) |->
                          Min2(Len(hb) + SumLen(SubSeq(rb, 1, k - 1)), Len(bytes))]]

\* what of a laid-out input the variable input keeps (file holds the bytes)
Ghost(w) == [x \in DOMAIN w \ {"bytes"} |-> w[x]]

SamInputs ==
    { [fmt |-> "sam", prologue |-> p, recs |-> rs, eol |-> e] :
        p \in SamPrologues, rs \in SeqsUpTo(SamKinds, MaxRecs), e \in BOOLEAN }

BamInputs ==
    { [fmt |-> "bam", text |-> t, refs |-> [i \in 1..n |-> RefC], recs |-> rs, cut |-> 0] :
        t \in BamHeaderTexts, n \in 0..MaxRefs, rs \in SeqsUpTo(BamKinds, MaxRecs) }

\* the record-start offset R and the record boundaries of a laid-out input
RecordStart(w) == w.R

Boundary(w, k) == w.offs[k + 1]

Boundaries(w) == { w.offs[i] : i \in DOMAIN w.offs }

\* ------------------------------------------------------------------- state
VARIABLES
    input,        \* the file as it was written: header, records (never read by the code)
    file,         \* the bytes of input_alignment
    blocks,       \* generate_block's parameter
    mapq,         \* the decoders' parameter
    first,        \* what the first pipeline run yielded, once a second run has begun
    gpc,          \* generate_block: where the generator stands
    gpos,         \* generate_block: position of its open_file
    n_left,       \* generate_block: iterations left of "for _ in range(n_ref)"
    block_start,  \* generate_block: block_start
    block_size,   \* generate_block: block_size
    yielded,      \* generate_block: the (start, end) pairs yielded so far
    todo,         \* the blocks still to hand to a decoder, in order
    dpc,          \* decoder: where the generator stands
    dpos,         \* decoder: position of its open_file
    dstart,       \* decoder: block_start (read_sam_file advances it)
    dend,         \* decoder: block_end
    out,          \* the tuples yielded by the decoder calls so far, in order
    derr,         \* the number of decoder calls that raised
    hpc,          \* read_bam_header: where the generator stands
    hpos,         \* read_bam_header: position in the decompressed stream
    hleft,        \* read_bam_header: iterations left of "for _ in range(n_ref)"
    hrefs         \* read_bam_header: the (name, l_ref) pairs yielded so far

gvars == << gpc, gpos, n_left, block_start, block_size, yielded >>

dvars == << dpc, dpos, dstart, dend, out, derr >>

hvars == << hpc, hpos, hleft, hrefs >>

ivars == << input, file, mapq, first >>

vars == << ivars, blocks, gvars, todo, dvars, hvars >>

\* os.path.getsize(input_alignment)
file_size == Len(file)

\* ---------------------------------------------------------- generate_block
\* open the file; the binary path reads and tests the magic
GBOpen ==
    /\ gpc = "start"
    /\ IF input.fmt = "bam"
       THEN LET magic == ReadBytes(file, 0, 4)
            IN /\ gpos' = Len(magic)
               /\ gpc' = IF magic # Magic THEN "raised" ELSE "l_text"
               /\ UNCHANGED block_start
       ELSE /\ gpos' = 0
            /\ gpc' = "scan"
            /\ block_start' = 0
    /\ UNCHANGED << ivars, blocks, n_left, block_size, yielded, todo, dvars, hvars >>

\* l_text = unpack(read(4)); seek(l_text, 1)
GBText ==
    /\ gpc = "l_text"
    /\ LET b == ReadBytes(file, gpos, 4)
       IN IF Len(b) # 4 \/ gpos + 4 + Unpack32(b) < 0
          THEN gpc' = "raised" /\ gpos' = gpos + Len(b)
          ELSE gpc' = "n_ref" /\ gpos' = gpos + 4 + Unpack32(b)
    /\ UNCHANGED << ivars, blocks, n_left, block_start, block_size, yielded, todo,
                    dvars, hvars >>

\* n_ref = unpack(read(4))
GBNRef ==
    /\ gpc = "n_ref"
    /\ LET b == ReadBytes(file, gpos, 4)
       IN IF Len(b) # 4
          THEN gpc' = "raised" /\ gpos' = gpos + Len(b) /\ n_left' = n_left
          ELSE gpc' = "ref" /\ gpos' = gpos + 4 /\ n_left' = Unpack32(b)
    /\ UNCHANGED << ivars, blocks, block_start, block_size, yielded, todo,
                    dvars, hvars >>

\* one iteration of the reference loop: l_name = unpack(read(4)); seek(l_name + 4, 1)
GBRef ==
    /\ gpc = "ref"
    /\ n_left > 0
    /\ LET b == ReadBytes(file, gpos, 4)
       IN IF Len(b) # 4 \/ gpos + 4 + Unpack32(b) + 4 < 0
          THEN gpc' = "raised" /\ gpos' = gpos + Len(b) /\ n_left' = n_left
          ELSE gpc' = "ref" /\ gpos' = gpos + 4 + Unpack32(b) + 4 /\ n_left' = n_left - 1
    /\ UNCHANGED << ivars, blocks, block_start, block_size, yielded, todo,
                    dvars, hvars >>

\* block_start = tell(); block_size = ceil((file_size - block_start) / blocks)
GBTell ==
    /\ gpc = "ref"
    /\ n_left <= 0
    /\ block_start' = gpos
    /\ block_size' = Ceil(file_size - gpos, blocks)
    /\ gpc' = "loop"
    /\ UNCHANGED << ivars, blocks, gpos, n_left, yielded, todo, dvars, hvars >>

\* one iteration of "for line in open_file" of the text path
SamScan ==
    /\ gpc = "scan"
    /\ LET e == ReadLineEnd(file, gpos)
           line == SubSeq(file, gpos + 1, e)
       IN IF line = <<>>
          THEN gpc' = "size" /\ UNCHANGED << gpos, block_start >>
          ELSE IF line[1] # AT
          THEN gpc' = "size" /\ gpos' = e /\ block_start' = e - Len(line)
          ELSE gpc' = "scan" /\ gpos' = e /\ UNCHANGED block_start
    /\ UNCHANGED << ivars, blocks, n_left, block_size, yielded, todo, dvars, hvars >>

\* block_size = ceil((file_size - block_start) / blocks) of the text path
SamSize ==
    /\ gpc = "size"
    /\ block_size' = Ceil(file_size - block_start, blocks)
    /\ gpc' = "loop"
    /\ UNCHANGED << ivars, blocks, gpos, n_left, block_start, yielded, todo,
                    dvars, hvars >>

\* where one iteration of the block loop seeks to before its readline()
Candidate ==
    IF input.fmt = "bam" THEN block_start + block_size ELSE gpos + block_size

\* one iteration of "while block_start < file_size": seek, readline, yield
GBBlock ==
    /\ gpc = "loop"
    /\ block_start < file_size
    /\ LET block_end == ReadLineEnd(file, Candidate)
       IN /\ gpos' = block_end
          /\ yielded' = Append(yielded, << block_start, Min2(block_end, file_size) >>)
          /\ block_start' = block_end
    /\ gpc' = "loop"
    /\ UNCHANGED << ivars, blocks, n_left, block_size, todo, dvars, hvars >>

\* the loop ends, the file is closed; the caller now holds every block
GBClose ==
    /\ gpc = "loop"
    /\ block_start >= file_size
    /\ gpc' = "closed"
    /\ todo' = yielded
    /\ UNCHANGED << ivars, blocks, gpos, n_left, block_start, block_size, yielded,
                    dvars, hvars >>

\* the header skip of the binary path, the header scan of the text path
bam_path == GBText \/ GBNRef \/ GBRef \/ GBTell

text_path == SamScan \/ SamSize

generate_block == GBOpen \/ bam_path \/ text_path \/ GBBlock \/ GBClose

\* ----------------------------------------------------------- read_sam_file
\* What one line does to read_sam_file: raise, yield a tuple, or neither.
\* "(~int(lines[1]) & 4) and (int(lines[4]) >= mapq)" evaluates its second half
\* only when the first is non-zero.
SamDecode(line, q) ==
    LET lines == SplitTab(RStripLF(line), <<>>)
        n == Len(lines)
        flag == IF n >= 2 THEN ParseInt(lines[2]) ELSE [ok |-> FALSE, val |-> 0]
        \* ~x & 4: bit 2 of -x - 1
        clear == (((-flag.val - 1) \div UnmappedMask) % 2) = 1
        mq == IF n >= 5 THEN ParseInt(lines[5]) ELSE [ok |-> FALSE, val |-> 0]
        pos == IF n >= 4 THEN ParseInt(lines[4]) ELSE [ok |-> FALSE, val |-> 0]
    IN IF ~flag.ok THEN [raised |-> TRUE, yields |-> FALSE, rec |-> <<>>]
       ELSE IF ~clear THEN [raised |-> FALSE, yields |-> FALSE, rec |-> <<>>]
       ELSE IF ~mq.ok THEN [raised |-> TRUE, yields |-> FALSE, rec |-> <<>>]
       ELSE IF ~(mq.val >= q) THEN [raised |-> FALSE, yields |-> FALSE, rec |-> <<>>]
       ELSE IF n < 6 \/ ~pos.ok \/ ~IsAscii(lines[1]) \/ ~IsAscii(lines[3]) \/ ~IsAscii(lines[6])
       THEN [raised |-> TRUE, yields |-> FALSE, rec |-> <<>>]
       ELSE [raised |-> FALSE, yields |-> TRUE,
             rec |-> << lines[1], lines[3], pos.val, lines[6] >>]

\* the break taken one line late: "if block_start > block_end"
BlockExhaustedLate(bs, be) == bs > be

\* "if block_start >= block_end: break"
BlockExhausted(bs, be) == bs >= be

\* a decoder is called on the next block: open the file, seek(block_start, 0)
DecOpen ==
    /\ dpc = "idle"
    /\ todo # <<>>
    /\ dstart' = Head(todo)[1]
    /\ dend' = Head(todo)[2]
    /\ dpos' = Head(todo)[1]
    /\ dpc' = input.fmt
    /\ todo' = Tail(todo)
    /\ UNCHANGED << ivars, blocks, gvars, out, derr, hvars >>

\* one iteration of "for line in open_file", or its end at end of file
SamLineStep ==
    /\ dpc = "sam"
    /\ LET e == ReadLineEnd(file, dpos)
           line == SubSeq(file, dpos + 1, e)
           d == SamDecode(line, mapq)
       IN IF line = <<>>
          THEN dpc' = "idle" /\ UNCHANGED << dpos, dstart, out, derr >>
          ELSE IF d.raised
          THEN dpc' = "idle" /\ dpos' = e /\ derr' = derr + 1 /\ UNCHANGED << dstart, out >>
          ELSE /\ dpos' = e
               /\ out' = IF d.yields THEN Append(out, d.rec) ELSE out
               /\ dstart' = dstart + Len(line)
               /\ dpc' = IF BlockExhausted(dstart + Len(line), dend) THEN "idle" ELSE "sam"
               /\ derr' = derr
    /\ UNCHANGED << ivars, blocks, gvars, todo, dend, hvars >>

\* ----------------------------------------------------------- read_bam_file
\* the format string of the record prefix: "<iiBBBi"
PrefixFormat == << "i", "i", "B", "B", "B", "i" >>

\* standard sizes, no padding ("<")
FieldSize(c) == IF c = "i" THEN 4 ELSE 1

RECURSIVE CalcSize(_)
CalcSize(fmt) == IF fmt = <<>> THEN 0 ELSE FieldSize(Head(fmt)) + CalcSize(Tail(fmt))

RECURSIVE UnpackFields(_, _)
UnpackFields(fmt, buf) ==
    IF fmt = <<>> THEN <<>>
    ELSE LET k == FieldSize(Head(fmt))
             v == IF Head(fmt) = "i" THEN Unpack32(SubSeq(buf, 1, 4)) ELSE buf[1]
         IN << v >> \o UnpackFields(Tail(fmt), SubSeq(buf, k + 1, Len(buf)))

\* struct.unpack(fmt, buf): struct.error unless buf has exactly calcsize(fmt) bytes
Unpack(fmt, buf) ==
    IF Len(buf) # CalcSize(fmt) THEN [ok |-> FALSE, vals |-> <<>>]
    ELSE [ok |-> TRUE, vals |-> UnpackFields(fmt, buf)]

\* What the bytes alignment_data do to read_bam_file: raise, yield, or neither.
BamDecode(alignment_data, q) ==
    LET u == Unpack(PrefixFormat, PySlice(alignment_data, 0, PrefixLen))
        ref_id == u.vals[1]
        pos == u.vals[2]
        mapq_val == u.vals[4]
        l_read_name == u.vals[6]
        read_name == PySlice(alignment_data, PrefixLen, PrefixLen + l_read_name - 1)
        cigar == PySlice(alignment_data, PrefixLen + l_read_name, Len(alignment_data))
    IN IF ~u.ok THEN [raised |-> TRUE, yields |-> FALSE, rec |-> <<>>]
       ELSE IF ~IsAscii(read_name) \/ ~IsAscii(cigar)
       THEN [raised |-> TRUE, yields |-> FALSE, rec |-> <<>>]
       ELSE IF mapq_val >= q
       THEN [raised |-> FALSE, yields |-> TRUE, rec |-> << read_name, ref_id, pos, cigar >>]
       ELSE [raised |-> FALSE, yields |-> FALSE, rec |-> <<>>]

\* one iteration of "while open_file.tell() < block_end", or its end
BamRecordStep ==
    /\ dpc = "bam"
    /\ LET block_size_data == ReadBytes(file, dpos, LenBytes)
           size == Unpack32(block_size_data)
           alignment_data == ReadBytes(file, dpos + LenBytes, size)
           d == BamDecode(alignment_data, mapq)
       IN IF ~(dpos < dend) \/ block_size_data = <<>>
          THEN dpc' = "idle" /\ UNCHANGED << dpos, out, derr >>
          ELSE IF Len(block_size_data) # LenBytes
          THEN dpc' = "idle" /\ dpos' = dpos + Len(block_size_data) /\ derr' = derr + 1
               /\ out' = out
          ELSE IF size < -1
          THEN dpc' = "idle" /\ dpos' = dpos + LenBytes /\ derr' = derr + 1 /\ out' = out
          ELSE /\ dpos' = dpos + LenBytes + Len(alignment_data)
               /\ dpc' = IF d.raised THEN "idle" ELSE "bam"
               /\ derr' = IF d.raised THEN derr + 1 ELSE derr
               /\ out' = IF d.yields THEN Append(out, d.rec) ELSE out
    /\ UNCHANGED << ivars, blocks, gvars, todo, dstart, dend, hvars >>

\* --------------------------------------------------------- read_bam_header
\* gzip.open(...).read(4) and the test of the magic
HOpen ==
    /\ hpc = "start"
    /\ LET magic == ReadBytes(file, 0, 4)
       IN /\ hpos' = Len(magic)
          /\ hpc' = IF magic # Magic THEN "raised" ELSE "l_text"
    /\ UNCHANGED << ivars, blocks, gvars, todo, dvars, hleft, hrefs >>

\* l_text = unpack(read(4)); header_text = read(l_text).decode("utf-8")
HText ==
    /\ hpc = "l_text"
    /\ LET b == ReadBytes(file, hpos, 4)
           header_text == ReadBytes(file, hpos + 4, Unpack32(b))
       IN IF Len(b) # 4
          THEN hpc' = "raised" /\ hpos' = hpos + Len(b)
          ELSE IF Unpack32(b) < -1 \/ ~IsAscii(header_text)
          THEN hpc' = "raised" /\ hpos' = hpos + 4
          ELSE hpc' = "n_ref" /\ hpos' = hpos + 4 + Len(header_text)
    /\ UNCHANGED << ivars, blocks, gvars, todo, dvars, hleft, hrefs >>

\* n_ref = unpack(read(4))
HNRef ==
    /\ hpc = "n_ref"
    /\ LET b == ReadBytes(file, hpos, 4)
       IN IF Len(b) # 4
          THEN hpc' = "raised" /\ hpos' = hpos + Len(b) /\ hleft' = hleft
          ELSE hpc' = "ref" /\ hpos' = hpos + 4 /\ hleft' = Unpack32(b)
    /\ UNCHANGED << ivars, blocks, gvars, todo, dvars, hrefs >>

\* "abc\0\0".rstrip("\x00")
RECURSIVE RStripNul(_)
RStripNul(s) ==
    IF s # <<>> /\ s[Len(s)] = 0 THEN RStripNul(SubSeq(s, 1, Len(s) - 1)) ELSE s

\* one iteration of the reference loop: l_name, name, l_ref, yield (name, l_ref)
HRef ==
    /\ hpc = "ref"
    /\ hleft > 0
    /\ LET b == ReadBytes(file, hpos, 4)
           l_name == Unpack32(b)
           name == ReadBytes(file, hpos + 4, l_name)
           c == ReadBytes(file, hpos + 4 + Len(name), 4)
       IN IF Len(b) # 4
          THEN hpc' = "raised" /\ hpos' = hpos + Len(b) /\ UNCHANGED << hleft, hrefs >>
          ELSE IF l_name < -1 \/ ~IsAscii(name)
          THEN hpc' = "raised" /\ hpos' = hpos + 4 /\ UNCHANGED << hleft, hrefs >>
          ELSE IF Len(c) # 4
          THEN hpc' = "raised" /\ hpos' = hpos + 4 + Len(name) + Len(c)
               /\ UNCHANGED << hleft, hrefs >>
          ELSE /\ hpc' = "ref"
               /\ hpos' = hpos + 4 + Len(name) + 4
               /\ hleft' = hleft - 1
               /\ hrefs' = Append(hrefs, << RStripNul(name), Unpack32(c) >>)
    /\ UNCHANGED << ivars, blocks, gvars, todo, dvars >>

\* the loop ends: the generator is exhausted
HClose ==
    /\ hpc = "ref"
    /\ hleft <= 0
    /\ hpc' = "closed"
    /\ UNCHANGED << ivars, blocks, gvars, todo, dvars, hpos, hleft, hrefs >>

read_bam_header == HOpen \/ HText \/ HNRef \/ HRef \/ HClose

\* ---------------------------------------------------------- specifications
InitG(pc) ==
    /\ gpc = pc
    /\ gpos = 0
    /\ n_left = 0
    /\ block_start = 0
    /\ block_size = 0
    /\ yielded = <<>>

InitD ==
    /\ dpc = "idle"
    /\ dpos = 0
    /\ dstart = 0
    /\ dend = 0
    /\ out = <<>>
    /\ derr = 0

InitH(pc) ==
    /\ hpc = pc
    /\ hpos = 0
    /\ hleft = 0
    /\ hrefs = <<>>

NoFirst == [done |-> FALSE, yielded |-> <<>>, out |-> <<>>, derr |-> 0]

\* The pipeline: generate_block(file, blocks), then the format's decoder on each
\* block in the order yielded; then the same once more with blocks = 1.
Init ==
    /\ \E w \in { Laid(in) : in \in SamInputs \cup BamInputs } :
         input = Ghost(w) /\ file = w.bytes
    /\ blocks \in 1..MaxBlocks
    /\ mapq \in MapqChoices
    /\ first = NoFirst
    /\ todo = <<>>
    /\ InitG("start")
    /\ InitD
    /\ InitH("off")

\* every block of the current run has been decoded
RunDone == gpc = "closed" /\ todo = <<>> /\ dpc = "idle"

\* the caller keeps the first run's records and calls generate_block(file, 1)
Rerun ==
    /\ RunDone
    /\ ~first.done
    /\ first' = [done |-> TRUE, yielded |-> yielded, out |-> out, derr |-> derr]
    /\ blocks' = 1
    /\ gpc' = "start"
    /\ gpos' = 0
    /\ n_left' = 0
    /\ block_start' = 0
    /\ block_size' = 0
    /\ yielded' = <<>>
    /\ dpos' = 0
    /\ dstart' = 0
    /\ dend' = 0
    /\ out' = <<>>
    /\ derr' = 0
    /\ UNCHANGED << input, file, mapq, todo, dpc, hvars >>

Next == generate_block \/ DecOpen \/ SamLineStep \/ BamRecordStep \/ Rerun

Spec == Init /\ [][Next]_vars

\* ---- read_sam_file alone, on a block that starts at a line of the record region
BlockEnds(w) ==
    Boundaries(w) \cup { b + 1 : b \in Boundaries(w) } \cup { b - 1 : b \in Boundaries(w) }

InitSam ==
    /\ \E w \in { Laid(in) : in \in SamInputs } :
         \E k \in 0..(Len(w.recs) - 1), e \in BlockEnds(w) :
            /\ Boundary(w, k) < e
            /\ input = Ghost(w) @@ [block |-> << Boundary(w, k), e >>]
            /\ file = w.bytes
            /\ todo = << << Boundary(w, k), e >> >>
    /\ blocks = 1
    /\ mapq \in MapqChoices
    /\ first = NoFirst
    /\ InitG("off")
    /\ InitD
    /\ InitH("off")

NextSam == DecOpen \/ SamLineStep

SpecSam == InitSam /\ [][NextSam]_vars

\* ---- read_bam_file alone, on a block that starts at a record; the file may
\* have lost its last bytes
InitBam ==
    /\ \E w \in { Laid([in EXCEPT !.cut = c]) : in \in BamInputs, c \in 0..MaxCut } :
         \E k \in 0..(Len(w.recs) - 1), e \in BlockEnds(w) :
            /\ Boundary(w, k) < e
            /\ e <= Len(w.bytes)
            /\ input = Ghost(w) @@ [block |-> << Boundary(w, k), e >>]
            /\ file = w.bytes
            /\ todo = << << Boundary(w, k), e >> >>
    /\ blocks = 1
    /\ mapq \in MapqChoices
    /\ first = NoFirst
    /\ InitG("off")
    /\ InitD
    /\ InitH("off")

NextBam == DecOpen \/ BamRecordStep

SpecBam == InitBam /\ [][NextBam]_vars

\* ---- the two binary header parsers on a file that ends anywhere
InitHeader ==
    /\ \E in \in { x \in BamInputs : Len(x.recs) <= 1 } :
         \E c \in 0..Len(Laid(in).bytes) :
            LET w == Laid([in EXCEPT !.cut = c])
            IN input = Ghost(w) /\ file = w.bytes
    /\ blocks \in 1..MaxBlocks
    /\ mapq = 0
    /\ first = NoFirst
    /\ todo = <<>>
    /\ InitG("start")
    /\ InitD
    /\ InitH("start")

NextHeader == GBOpen \/ bam_path \/ GBBlock \/ GBClose \/ read_bam_header

SpecHeader == InitHeader /\ [][NextHeader]_vars

\* ------------------------------------------------------------------ claims
\* the records of the input that begin in [input.block[1], input.block[2])
BeginsInBlock(k) ==
    /\ Boundary(input, k - 1) >= input.block[1]
    /\ Boundary(input, k - 1) < input.block[2]

\* the tuples the text records of the block stand for, as the file was written
SamExpected ==
    LET keep(k) == /\ BeginsInBlock(k)
                   /\ (input.recs[k].flag \div 4) % 2 = 0
                   /\ input.recs[k].mq >= mapq
        idx == SelectSeq([k \in 1..Len(input.recs) |-> k], keep)
    IN [j \in 1..Len(idx) |->
          << input.recs[idx[j]].qname, input.recs[idx[j]].rname,
             input.recs[idx[j]].pos, input.recs[idx[j]].cigar >>]

\* the end of the last line that begins before the block's end
LastLineEnd ==
    Boundary(input, CHOOSE k \in 1..Len(input.recs) :
                       /\ BeginsInBlock(k)
                       /\ \A j \in 1..Len(input.recs) : BeginsInBlock(j) => j <= k)

DecoderDone == dpc = "idle" /\ todo = <<>>

\* C5: read_sam_file on a block (start, end), start < end, start a line start,
\* never raises and yields, in file order, exactly one tuple (field 0, field 2,
\* int field 3, field 5) for each line that begins in [start, end), has flag bit
\* value 4 clear and field 4 >= mapq; it reads no line that begins at or after
\* end, and reads the last line that begins before end to its end.
C5_SamBlockDecoded ==
    /\ derr = 0
    /\ Len(out) <= Len(SamExpected)
    /\ out = SubSeq(SamExpected, 1, Len(out))
    /\ DecoderDone => out = SamExpected /\ dpos = LastLineEnd

\* C5's case: the decoder is done, its last line ran past the block's end, it
\* yielded a record and dropped another line of the block.
C5_Witness ==
    /\ DecoderDone
    /\ dpos > input.block[2]
    /\ dpos < file_size
    /\ out # <<>>
    /\ Len(out) < Cardinality({k \in 1..Len(input.recs) : BeginsInBlock(k)})

\* the record-start offset and the file size of the current input
R == RecordStart(input)

S == file_size

Covered == UNION { yielded[i][1]..(yielded[i][2] - 1) : i \in 1..Len(yielded) }

\* C1: once generate_block has ended, the blocks it yielded are sorted by start,
\* pairwise disjoint and contiguous, the first starts at R, the last ends at S,
\* and together they cover exactly [R, S).
C1_BlocksTileRecordRegion ==
    gpc = "closed" =>
        /\ \A i, j \in 1..Len(yielded) :
              i < j => yielded[i][1] <= yielded[j][1] /\ yielded[i][2] <= yielded[j][1]
        /\ \A i \in 1..(Len(yielded) - 1) : yielded[i + 1][1] = yielded[i][2]
        /\ yielded # <<>> => yielded[1][1] = R /\ yielded[Len(yielded)][2] = S
        /\ Covered = R..(S - 1)

\* C2: every block end is a record boundary or S, and every block after the
\* first starts at a record boundary, so no record spans two blocks.
C2_BlocksEndOnRecordBoundaries ==
    \A i \in 1..Len(yielded) :
        /\ yielded[i][2] \in Boundaries(input) \cup {S}
        /\ i > 1 => yielded[i][1] \in Boundaries(input)

Count(s, x) == Cardinality({ i \in 1..Len(s) : s[i] = x })

SameBag(s, t) == Len(s) = Len(t) /\ \A i \in 1..Len(s) : Count(s, s[i]) = Count(t, s[i])

\* C3: the records decoded block by block from generate_block(file, N), taken
\* together, are the same multiset as those decoded from the single block of
\* generate_block(file, 1).
C3_BlockwiseDecodeEqualsWhole ==
    (first.done /\ RunDone) => SameBag(first.out, out)

\* C6: when the record region is empty (R = S), generate_block yields no block.
C6_EmptyRegionYieldsNothing ==
    R = S => yielded = <<>>

\* C7: generate_block yields at most N blocks and then ends, and every block
\* is a non-empty range with R <= start < end <= S.
C7_AtMostNBlocksInsideRegion ==
    /\ Len(yielded) <= blocks
    /\ Len(yielded) = blocks => block_start >= file_size
    /\ \A i \in 1..Len(yielded) :
          R <= yielded[i][1] /\ yielded[i][1] < yielded[i][2] /\ yielded[i][2] <= S

\* the ideal block size B = ceil((S - R) / N)
IdealSize == Ceil(S - R, blocks)

\* the first record boundary found scanning forward from offset c, or S
NextBoundary(c) ==
    LET after == { b \in Boundaries(input) : b > c }
    IN IF c >= S \/ after = {} THEN S ELSE MinOf(after)

\* C10: every block, the first included, ends at the first record boundary
\* found scanning forward from its own start + B, or at S.
C10_EndIsFirstBoundaryAfterStartPlusB ==
    \A i \in 1..Len(yielded) : yielded[i][2] = NextBoundary(yielded[i][1] + IdealSize)

\* the tuples the binary records stand for, as the file was written
BamExpected ==
    LET idx == SelectSeq([k \in 1..Len(input.recs) |-> k],
                         LAMBDA k : input.recs[k].mq >= mapq)
    IN [j \in 1..Len(idx) |->
          << input.recs[idx[j]].name, input.recs[idx[j]].ref_id,
             input.recs[idx[j]].pos, input.recs[idx[j]].cigar >>]

\* a whole file whose records all have the 16-byte prefix, decoded as one block
WholeAlignedRegion ==
    /\ input.cut = 0
    /\ input.block = << R, S >>
    /\ \A i \in 1..Len(input.recs) : input.recs[i].layout = "aligned"

\* C4: read_bam_file over the whole record region of a file of records with the
\* 16-byte prefix never raises and yields, in file order, exactly one
\* (read_name, ref_id, pos, cigar) for each record of quality >= mapq.
C4_WholeRegionDecoded ==
    WholeAlignedRegion =>
        /\ derr = 0
        /\ DecoderDone => out = BamExpected

\* the decoder stands at a complete length prefix that announces more body
\* bytes than remain before the block's end or the end of the file
BodyOverruns ==
    /\ dpc = "bam"
    /\ dpos < dend
    /\ dpos + LenBytes <= file_size
    /\ Unpack32(ReadBytes(file, dpos, LenBytes)) > Min2(dend, file_size) - (dpos + LenBytes)

\* C8: a record whose length prefix announces more body bytes than remain
\* before the block's end (or the end of the file) makes read_bam_file raise;
\* it yields nothing for that record.
C8_OverrunningBodyRaises ==
    [][BodyOverruns => (derr' = derr + 1 /\ out' = out)]_vars

\* the file ends inside the header, past the magic and the text length
TruncatedHeader == file_size < R /\ file_size >= Len(Magic) + LenBytes

\* C9: on a binary file that ends inside its header neither read_bam_header
\* nor generate_block ends normally: both raise, and no block is yielded.
C9_TruncatedHeaderRaises ==
    TruncatedHeader => hpc # "closed" /\ gpc # "closed" /\ yielded = <<>>

====
